---- MODULE Spec2Model ----
(***************************************************************************)
(* Model of the typeinfer scoring pipeline of src/src/lib.rs:              *)
(*   get_score -> get_probs_impl -> get_top_choice(_impl) -> evaluate_model *)
(*                                                                         *)
(* f64 values are modelled as exact rationals extended with the IEEE-754   *)
(* special values: a value is a triple <<kind, n, d>> with                 *)
(*   <<"fin", n, d>>   the rational n/d in lowest terms, d > 0             *)
(*   <<"inf", s, 1>>   the infinity of sign s (1 or -1)                    *)
(*   <<"nan", 0, 1>>   not-a-number                                        *)
(* Division by zero, inf-inf, 0*inf and comparisons with NaN behave as in  *)
(* IEEE-754.  Rounding, overflow to infinity and the sign of zero are not  *)
(* modelled: finite arithmetic is exact.  i32 values (years, counters)     *)
(* stay far from the 32-bit range at the bounds used here.                 *)
(*                                                                         *)
(* The functions are pure and keep no state between calls, so a behaviour  *)
(* is one call: the caller's arguments, then the function's result (for    *)
(* evaluate_model, one step per test record).  A HashMap is iterated in an *)
(* arbitrary order, so a scan over it is taken in every order of its keys. *)
(***************************************************************************)
EXTENDS Integers, Sequences, FiniteSets

VARIABLES params,      \* the Params object passed to the calls
          train_data,  \* the training Vec<NameData> passed to the calls
          op,          \* the function (or loop position) that ran last
          nam1, nam2,  \* arguments of the last get_score call
          data,        \* query record of the last aggregation
          test_data,   \* test Vec<NameData> of the evaluate_model call
          score,       \* return value of get_score
          probs,       \* the map returned by the last get_probs_impl
          top,         \* return value of get_top_choice
          top_choice,  \* return value of the last get_top_choice_impl
          idx,         \* evaluate_model_impl: test records processed so far
          correct, incorrect, no_value,   \* evaluate_model_impl counters
          info         \* the ScoreInfo returned by evaluate_model

vars == <<params, train_data, op, nam1, nam2, data, test_data, score, probs,
          top, top_choice, idx, correct, incorrect, no_value, info>>

----------------------------------------------------------------------------
(* f64 arithmetic *)

Abs(x) == IF x < 0 THEN -x ELSE x

RECURSIVE Gcd(_, _)
Gcd(a, b) == IF b = 0 THEN a ELSE Gcd(b, a % b)

Sign(x) == IF x < 0 THEN -1 ELSE IF x = 0 THEN 0 ELSE 1

\* the rational n/d (d # 0) in lowest terms
Rat(n, d) ==
  LET g == Gcd(Abs(n), Abs(d))
      s == IF d < 0 THEN -1 ELSE 1
  IN  <<"fin", (s * n) \div g, (s * d) \div g>>

F(n) == <<"fin", n, 1>>
NaN == <<"nan", 0, 1>>
Inf(s) == <<"inf", s, 1>>

IsNaN(a) == a[1] = "nan"
IsInf(a) == a[1] = "inf"
FSign(a) == IF IsInf(a) THEN a[2] ELSE Sign(a[2])

\* a + b
FAdd(a, b) ==
  IF IsNaN(a) \/ IsNaN(b) THEN NaN
  ELSE IF IsInf(a) /\ IsInf(b) THEN (IF a[2] = b[2] THEN a ELSE NaN)
  ELSE IF IsInf(a) THEN a
  ELSE IF IsInf(b) THEN b
  ELSE Rat(a[2] * b[3] + b[2] * a[3], a[3] * b[3])

\* a * b
FMul(a, b) ==
  IF IsNaN(a) \/ IsNaN(b) THEN NaN
  ELSE IF IsInf(a) \/ IsInf(b)
       THEN (IF FSign(a) * FSign(b) = 0 THEN NaN ELSE Inf(FSign(a) * FSign(b)))
  ELSE Rat(a[2] * b[2], a[3] * b[3])

\* a / b
FDiv(a, b) ==
  IF IsNaN(a) \/ IsNaN(b) THEN NaN
  ELSE IF IsInf(a) THEN (IF IsInf(b) THEN NaN
                         ELSE Inf(a[2] * (IF b[2] < 0 THEN -1 ELSE 1)))
  ELSE IF IsInf(b) THEN F(0)
  ELSE IF b[2] = 0 THEN (IF a[2] = 0 THEN NaN ELSE Inf(Sign(a[2])))
  ELSE Rat(a[2] * b[3], a[3] * b[2])

\* a > b (false whenever an operand is NaN)
FGt(a, b) ==
  IF IsNaN(a) \/ IsNaN(b) THEN FALSE
  ELSE IF IsInf(a) THEN (a[2] = 1 /\ b # a)
  ELSE IF IsInf(b) THEN b[2] = -1
  ELSE a[2] * b[3] > b[2] * a[3]

\* f64::powf(a, e) for an exponent e that is a non-negative whole number
RECURSIVE FPow(_, _)
FPow(a, e) == IF e = 0 THEN F(1) ELSE FMul(a, FPow(a, e - 1))

----------------------------------------------------------------------------
(* Vec<i32> helpers *)

\* Vec::contains
Contains(s, x) == \E i \in 1..Len(s) : s[i] = x

----------------------------------------------------------------------------
(* get_score *)

\* the loop counting the authors of a that occur in b
SharedAuthors(a, b) == Cardinality({i \in 1..Len(a) : Contains(b, a[i])})

\* nam1.authors.len() + nam2.authors.len() - shared_authors
TotalAuthors(a, b) == Len(a) + Len(b) - SharedAuthors(a, b)

\* variant: the equality test left out, every pair takes the overlap arm
AuthorBranchNoEqualityTest(a, b) == "overlap"

\* which arm of `if nam1.authors == nam2.authors` runs
AuthorBranch(a, b) == IF a = b THEN "equal" ELSE "overlap"

\* variant: equal author lists are sent through the overlap computation too
AuthorTermOverlapOnly(s, a, b, p) ==
  LET overlap_prop == FDiv(F(SharedAuthors(a, b)), F(TotalAuthors(a, b)))
  IN  IF FGt(overlap_prop, F(0))
      THEN FMul(s, FMul(overlap_prop, p.author_boost))
      ELSE s

\* the author term: the score after the author block, given the score before
AuthorTerm(s, a, b, p) ==
  IF AuthorBranch(a, b) = "equal"
  THEN FMul(s, p.author_boost)
  ELSE LET overlap_prop == FDiv(F(SharedAuthors(a, b)), F(TotalAuthors(a, b)))
       IN  IF FGt(overlap_prop, F(0))
           THEN FMul(s, FMul(overlap_prop, p.author_boost))
           ELSE s

\* the country block
CountryTerm(s, a, b, p) ==
  IF a.tl_country = b.tl_country THEN FMul(s, p.country_boost) ELSE s

\* the citation group block
CgTerm(s, a, b, p) ==
  IF a.citation_group = b.citation_group THEN FMul(s, p.cg_boost) ELSE s

\* the year block
YearTerm(s, a, b, p) ==
  LET year_difference == Abs(a.year - b.year)
  IN  FMul(s, FMul(FDiv(F(1), FPow(p.year_factor, year_difference)), p.year_boost))

\* variant: the short circuit compares the collections instead of the ids
IdShortCircuitOnCollection(a, b) == a.collection = b.collection

\* `if nam1.name_id == nam2.name_id { return Ok(0.0); }`
IdShortCircuit(a, b) == a.name_id = b.name_id

get_score(a, b, p) ==
  IF IdShortCircuit(a, b) THEN F(0)
  ELSE YearTerm(AuthorTerm(CgTerm(CountryTerm(F(1), a, b, p), a, b, p),
                           a.authors, b.authors, p), a, b, p)

----------------------------------------------------------------------------
(* get_probs_impl *)

\* *map.entry(k).or_insert(0.0) += v
EntryAdd(m, k, v) ==
  [x \in DOMAIN m \cup {k} |-> IF x = k
                               THEN FAdd(IF k \in DOMAIN m THEN m[k] ELSE F(0), v)
                               ELSE m[x]]

EmptyMap == [x \in {} |-> F(0)]

\* variant: highest_score starts at 0.0 instead of 1.0
LoopInitZero == [scores |-> [x \in {} |-> F(0)], highest_score |-> F(0)]

\* state of the loop before the first training record
LoopInit == [scores |-> EmptyMap, highest_score |-> F(1)]

\* does this pairwise score count toward the candidate's bucket
AboveCutoff(s, p) == FGt(s, p.score_cutoff)

\* variant: the comparison is reversed, the lowest score is tracked
LoopBodyTracksLowest(acc, d, t, p) ==
  LET s == get_score(d, t, p)
  IN  [scores |-> IF AboveCutoff(s, p)
                  THEN EntryAdd(acc.scores, t.collection, s)
                  ELSE acc.scores,
       highest_score |-> IF FGt(acc.highest_score, s) THEN s ELSE acc.highest_score]

\* one iteration of `for train_datum in train_data`
LoopBody(acc, d, t, p) ==
  LET s == get_score(d, t, p)
  IN  [scores |-> IF AboveCutoff(s, p)
                  THEN EntryAdd(acc.scores, t.collection, s)
                  ELSE acc.scores,
       highest_score |-> IF FGt(s, acc.highest_score) THEN s ELSE acc.highest_score]

\* the loop over the first n training records
RECURSIVE ScoreLoop(_, _, _, _)
ScoreLoop(d, train, p, n) ==
  IF n = 0 THEN LoopInit ELSE LoopBody(ScoreLoop(d, train, p, n - 1), d, train[n], p)

\* the key that receives highest_score
ReservedKey == 0

\* variant: the reserved entry is added only when no candidate was counted
BucketsReservedOnlyIfEmpty(d, train, p) ==
  LET acc == ScoreLoop(d, train, p, Len(train))
  IN  IF DOMAIN acc.scores = {}
      THEN EntryAdd(acc.scores, ReservedKey, acc.highest_score)
      ELSE acc.scores

\* the scores map after `*scores.entry(0).or_insert(0.0) += highest_score`
Buckets(d, train, p) ==
  LET acc == ScoreLoop(d, train, p, Len(train))
  IN  EntryAdd(acc.scores, ReservedKey, acc.highest_score)

\* map.values().sum()
RECURSIVE SumOver(_, _)
SumOver(m, keys) ==
  IF keys = {} THEN F(0)
  ELSE LET k == CHOOSE x \in keys : TRUE
       IN  FAdd(m[k], SumOver(m, keys \ {k}))

ValuesSum(m) == SumOver(m, DOMAIN m)

\* variant: the buckets are divided by the reserved bucket, not by the total
DivisorReservedBucket(scores) == scores[ReservedKey]

\* the divisor of the normalisation loop
Divisor(scores) == ValuesSum(scores)

get_probs_impl(d, train, p) ==
  LET scores == Buckets(d, train, p)
      total_score == Divisor(scores)
  IN  [k \in DOMAIN scores |-> FDiv(scores[k], total_score)]

----------------------------------------------------------------------------
(* get_top_choice / get_top_choice_impl *)

\* the orders in which a HashMap with these keys can be iterated
Orders(keys) ==
  {o \in [1..Cardinality(keys) -> keys] : \A i, j \in 1..Cardinality(keys) :
                                             o[i] = o[j] => i = j}

\* initial value of top_choice
Sentinel == -1

\* variant: >= in place of >
BetterOrEqual(value, top_score) == ~FGt(top_score, value)

\* does this entry replace the running best
Better(value, top_score) == FGt(value, top_score)

\* `for (key, value) in probs.iter()` over the first n entries of order o
RECURSIVE Scan(_, _, _, _)
Scan(pr, o, cutoff, n) ==
  IF n = 0 THEN [top_choice |-> Sentinel, top_score |-> cutoff]
  ELSE LET prev == Scan(pr, o, cutoff, n - 1)
       IN  IF Better(pr[o[n]], prev.top_score)
           THEN [top_choice |-> o[n], top_score |-> pr[o[n]]]
           ELSE prev

None == <<"None">>
Some(c, s) == <<"Some", c, s>>

\* get_top_choice, with the map iterated in order o
get_top_choice(d, train, p, o) ==
  LET pr == get_probs_impl(d, train, p)
      r == Scan(pr, o, p.probability_cutoff, Len(o))
  IN  IF r.top_choice = Sentinel THEN None ELSE Some(r.top_choice, r.top_score)

\* get_top_choice_impl, with the map iterated in order o
get_top_choice_impl(d, train, p, o) ==
  Scan(get_probs_impl(d, train, p), o, p.probability_cutoff, Len(o)).top_choice

----------------------------------------------------------------------------
(* evaluate_model_impl *)

FALSE_POSITIVE_COST == 10

\* correct - (incorrect * FALSE_POSITIVE_COST)
FinalScore(c, i) == c - (i * FALSE_POSITIVE_COST)

\* `if top_choice == -1 { no_value += 1; continue; }`
IsNoValue(tc) == tc = Sentinel

\* `if top_choice == nam.collection { correct += 1 }`, reached past the continue
IsCorrect(tc, nam) == ~IsNoValue(tc) /\ tc = nam.collection

\* variant: the `continue` is missing, a no-value record falls through
IsIncorrectNoContinue(tc, nam) == tc # nam.collection

\* `else { incorrect += 1 }`, reached past the continue
IsIncorrect(tc, nam) == ~IsNoValue(tc) /\ tc # nam.collection

----------------------------------------------------------------------------
(* Inputs *)

MaxTrain == 2     \* longest training list
MaxTest == 2      \* longest test list
MaxAuthors == 2   \* longest author list of a get_score argument

NameData(collection, tl_country, year, authors, citation_group, name_id) ==
  [collection |-> collection, tl_country |-> tl_country, year |-> year,
   authors |-> authors, citation_group |-> citation_group, name_id |-> name_id]

Params(country_boost, cg_boost, author_boost, year_factor, year_boost, score_cutoff, probability_cutoff) ==
  [country_boost |-> country_boost, cg_boost |-> cg_boost,
   author_boost |-> author_boost, year_factor |-> year_factor,
   year_boost |-> year_boost, score_cutoff |-> score_cutoff,
   probability_cutoff |-> probability_cutoff]

\* Params objects: boosts of 2, a year boost of either sign, a score cutoff
\* below every score or between the scores below the baseline 1.0, a
\* probability cutoff below or at 1.0
ParamsSet ==
  {Params(F(2), F(2), F(2), F(2), yb, sc, pc) :
     yb \in {F(1), F(-1)}, sc \in {F(-4), Rat(3, 8), Rat(3, 4)},
     pc \in {Rat(1, 4), F(1)}}

\* collection ids: the reserved 0, an ordinary positive id and a negative id
Collections == {-1, 0, 1}

\* an id above those of every training list: a record outside the list
FreshId == MaxTrain + 7

\* training record number i (ids are unique within a list)
TrainRecord(i, c, k) == NameData(c, k, 2000, <<1>>, 1, i)

\* training lists of length n over the collections cs
TrainListsOf(n, cs) ==
  {[i \in 1..n |-> TrainRecord(i, c[i], k[i])] : c \in [1..n -> cs], k \in [1..n -> {1, 2}]}

TrainLists == UNION {TrainListsOf(n, Collections) : n \in 0..MaxTrain}

\* the scenario of three candidates in three different non-zero collections
ScenarioLists ==
  {t \in TrainListsOf(3, {1, 2, 3}) :
     \A i, j \in 1..3 : t[i].collection = t[j].collection => i = j}

\* a query: shares one of its two authors and no citation group with the
\* candidates, and the country with some of them
Query(c, y, i) == NameData(c, 1, y, <<1, 2>>, 2, i)

\* queries of the same year as the candidates or later, outside the training
\* list or (by id) its first record
QueryRecords == {Query(1, 2000, FreshId), Query(1, 2001, FreshId), Query(1, 2002, 1)}

\* labelled test record number i: labels 1, 0, 1, ... and years 2001, 2000,
\* 2001, ... alternate along the list
TestRecord(i) == Query(i % 2, 2000 + (i % 2), FreshId + i)

\* the test lists
TestLists == {[i \in 1..n |-> TestRecord(i)] : n \in 0..MaxTest}

\* author ids of the get_score arguments
AuthorIds == {1, 2}

\* author lists, repeated ids included
AuthorLists == UNION {[1..n -> AuthorIds] : n \in 0..MaxAuthors}

\* first argument: any author list
ScoreQueries == {NameData(1, 1, 2000, a, 1, 1) : a \in AuthorLists}

\* second argument: same or other country, year, citation group and id
ScoreRecords ==
  {NameData(2, k, y, a, g, i) :
     k \in {1, 2}, y \in {2000, 2002}, a \in AuthorLists, g \in {1, 2}, i \in {1, 2}}

----------------------------------------------------------------------------
(* State machine *)

\* no function has been called yet
Idle ==
  /\ op = "none"
  /\ nam1 = <<>> /\ nam2 = <<>> /\ data = <<>> /\ test_data = <<>>
  /\ score = <<>> /\ probs = <<>> /\ top = <<>>
  /\ top_choice = 0 /\ idx = 0
  /\ correct = 0 /\ incorrect = 0 /\ no_value = 0 /\ info = <<>>

\* a caller holding a training list and a Params object
Init ==
  /\ params \in ParamsSet
  /\ train_data \in TrainLists
  /\ Idle

\* a caller holding the three-collection training list
InitScenario ==
  /\ params \in ParamsSet
  /\ train_data \in ScenarioLists
  /\ Idle

\* a caller holding a Params object only
InitScore ==
  /\ params \in ParamsSet
  /\ train_data = <<>>
  /\ Idle

\* get_score(nam1, nam2, params)
GetScore ==
  \E a \in ScoreQueries, b \in ScoreRecords :
    /\ op = "none"
    /\ op' = "get_score"
    /\ nam1' = a /\ nam2' = b
    /\ score' = get_score(a, b, params)
    /\ UNCHANGED <<params, train_data, data, test_data, probs, top,
                   top_choice, idx, correct, incorrect, no_value, info>>

\* get_probs(data, train_data, params)
GetProbs ==
  \E d \in QueryRecords :
    /\ op = "none"
    /\ op' = "get_probs"
    /\ data' = d
    /\ probs' = get_probs_impl(d, train_data, params)
    /\ UNCHANGED <<params, train_data, nam1, nam2, test_data, score, top,
                   top_choice, idx, correct, incorrect, no_value, info>>

\* get_top_choice(data, train_data, params); the HashMap is iterated in an
\* arbitrary order
GetTopChoice ==
  \E d \in QueryRecords :
    \E o \in Orders(DOMAIN get_probs_impl(d, train_data, params)) :
      /\ op = "none"
      /\ op' = "get_top_choice"
      /\ data' = d
      /\ probs' = get_probs_impl(d, train_data, params)
      /\ top' = get_top_choice(d, train_data, params, o)
      /\ UNCHANGED <<params, train_data, nam1, nam2, test_data, score,
                     top_choice, idx, correct, incorrect, no_value, info>>

\* evaluate_model(train_data, test_data, params): entry, counters zeroed
EvaluateEnter ==
  \E t \in TestLists :
    /\ op = "none"
    /\ op' = "evaluate_loop"
    /\ test_data' = t
    /\ idx' = 0 /\ correct' = 0 /\ incorrect' = 0 /\ no_value' = 0
    /\ UNCHANGED <<params, train_data, nam1, nam2, data, score, probs,
                   top, top_choice, info>>

\* one iteration of `for nam in test_data`
EvaluateStep ==
  /\ op = "evaluate_loop"
  /\ idx < Len(test_data)
  /\ LET nam == test_data[idx + 1]
     IN  \E o \in Orders(DOMAIN get_probs_impl(nam, train_data, params)) :
           LET tc == get_top_choice_impl(nam, train_data, params, o)
           IN  /\ data' = nam
               /\ probs' = get_probs_impl(nam, train_data, params)
               /\ top_choice' = tc
               /\ no_value' = IF IsNoValue(tc) THEN no_value + 1 ELSE no_value
               /\ correct' = IF IsCorrect(tc, nam) THEN correct + 1 ELSE correct
               /\ incorrect' = IF IsIncorrect(tc, nam) THEN incorrect + 1 ELSE incorrect
  /\ idx' = idx + 1
  /\ UNCHANGED <<params, train_data, op, nam1, nam2, test_data, score, top, info>>

\* the loop is over: build and return the ScoreInfo
EvaluateReturn ==
  /\ op = "evaluate_loop"
  /\ idx = Len(test_data)
  /\ op' = "evaluate_model"
  /\ info' = [score |-> FinalScore(correct, incorrect), correct |-> correct,
              incorrect |-> incorrect, no_value |-> no_value]
  /\ UNCHANGED <<params, train_data, nam1, nam2, data, test_data, score, probs,
                 top, top_choice, idx, correct, incorrect, no_value>>

Next == GetProbs \/ GetTopChoice \/ EvaluateEnter \/ EvaluateStep \/ EvaluateReturn

Spec == Init /\ [][Next]_vars

\* the same caller, passing only Params objects without a negative boost
InitPositive ==
  /\ Init
  /\ \A f \in {"country_boost", "cg_boost", "author_boost", "year_factor", "year_boost"} :
       FGt(params[f], F(0))

SpecPositive == InitPositive /\ [][Next]_vars

NextScenario == GetProbs \/ GetTopChoice

SpecScenario == InitScenario /\ [][NextScenario]_vars

NextScore == GetScore

SpecScore == InitScore /\ [][NextScore]_vars

----------------------------------------------------------------------------
(* Properties of get_score, checked under SpecScore *)

\* the score before the author block and after the year block, the author
\* block left out
ScoreWithoutAuthorTerm(a, b, p) ==
  YearTerm(CgTerm(CountryTerm(F(1), a, b, p), a, b, p), a, b, p)

BothAuthorsEmpty == nam1.authors = <<>> /\ nam2.authors = <<>>

ScoreCalled == op = "get_score"

\* C7 as stated: when both records have empty author lists and different
\* ids, the author term is skipped, so the score is the product of the
\* country, citation-group and year terms only.
C7_AuthorTermSkipped ==
  (ScoreCalled /\ nam1.name_id # nam2.name_id /\ BothAuthorsEmpty)
    => score = ScoreWithoutAuthorTerm(nam1, nam2, params)

\* C7 amended: when both records have empty author lists and different ids,
\* the lists compare equal, so the score is multiplied by author_boost once,
\* as for any exact match; no overlap proportion is computed.
C7_EmptyAuthorsGetBoost ==
  (ScoreCalled /\ nam1.name_id # nam2.name_id /\ BothAuthorsEmpty)
    => score = FMul(ScoreWithoutAuthorTerm(nam1, nam2, params), params.author_boost)

\* get_score ran on two records with empty author lists and different ids,
\* and the boost changed the score
C7_Witness ==
  /\ ScoreCalled /\ nam1.name_id # nam2.name_id /\ BothAuthorsEmpty
  /\ score # ScoreWithoutAuthorTerm(nam1, nam2, params)

\* C8: two records with equal name_id score exactly 0.0, whatever the other
\* fields and the Params are.
C8_SelfMatchIsZero ==
  (ScoreCalled /\ nam1.name_id = nam2.name_id) => score = F(0)

\* get_score ran on two records with the same id that differ in country,
\* year, citation group and authors
C8_Witness ==
  /\ ScoreCalled /\ nam1.name_id = nam2.name_id /\ score = F(0)
  /\ nam1.tl_country # nam2.tl_country /\ nam1.year # nam2.year
  /\ nam1.citation_group # nam2.citation_group /\ nam1.authors # nam2.authors

\* the overlap arm of the author block ran
OverlapArmTaken ==
  /\ ScoreCalled /\ nam1.name_id # nam2.name_id
  /\ AuthorBranch(nam1.authors, nam2.authors) = "overlap"

\* C10: whenever the overlap arm runs, shared_authors does not exceed the sum
\* of the two lengths (the usize subtraction does not underflow), total_authors
\* is at least 1 (no division by zero), and the score is not NaN.
C10_NoDivisionByZero ==
  OverlapArmTaken =>
    /\ SharedAuthors(nam1.authors, nam2.authors) <= Len(nam1.authors) + Len(nam2.authors)
    /\ TotalAuthors(nam1.authors, nam2.authors) >= 1
    /\ ~IsNaN(score)

\* the overlap arm ran on a list with a repeated id against a shorter list
\* holding that id: every author of nam1 is shared and total_authors is 1
C10_Witness ==
  /\ OverlapArmTaken
  /\ Len(nam1.authors) = 2 /\ nam1.authors[1] = nam1.authors[2]
  /\ nam2.authors = <<nam1.authors[1]>>
  /\ TotalAuthors(nam1.authors, nam2.authors) = 1

----------------------------------------------------------------------------
(* Properties of get_probs and get_top_choice, checked under Spec *)

\* probs holds the map of a get_probs or get_top_choice call on data
ProbsCalled == op \in {"get_probs", "get_top_choice"}

TopCalled == op = "get_top_choice"

\* every boost and the year factor are positive: no pairwise score is negative
PositiveParams ==
  /\ FGt(params.country_boost, F(0)) /\ FGt(params.cg_boost, F(0))
  /\ FGt(params.author_boost, F(0)) /\ FGt(params.year_factor, F(0))
  /\ FGt(params.year_boost, F(0))

\* the pairwise score of the query against training record i
ScoreOf(i) == get_score(data, train_data[i], params)

\* C2 as stated: for every non-empty training list and every Params the
\* returned values sum to 1.0, and the sum of the buckets is never zero.
C2_SumsToOne ==
  (ProbsCalled /\ Len(train_data) >= 1) =>
    /\ Divisor(Buckets(data, train_data, params)) # F(0)
    /\ ValuesSum(probs) = F(1)

\* C2 amended: for every non-empty training list and every Params whose boosts
\* and year factor are positive, the returned values sum to 1.0 and the sum
\* of the buckets is at least 1.0.
C2_SumsToOneIfPositive ==
  (ProbsCalled /\ Len(train_data) >= 1 /\ PositiveParams) =>
    /\ ~FGt(F(1), Divisor(Buckets(data, train_data, params)))
    /\ ValuesSum(probs) = F(1)

\* get_probs ran with positive boosts and returned at least three buckets
C2_Witness ==
  /\ ProbsCalled /\ Len(train_data) >= 1 /\ PositiveParams
  /\ Cardinality(DOMAIN probs) >= 3
  /\ ValuesSum(probs) = F(1)

\* C3 as stated: for every training list and every Params the returned map
\* has key 0 with a strictly positive value.
C3_ReservedKeyPositive ==
  ProbsCalled => (0 \in DOMAIN probs /\ FGt(probs[0], F(0)))

\* C3 amended: the returned map always has key 0, and its value is strictly
\* positive whenever the boosts and the year factor are positive.
C3_ReservedKeyPositiveIfPositive ==
  ProbsCalled => (0 \in DOMAIN probs /\ (PositiveParams => FGt(probs[0], F(0))))

\* get_probs ran with positive boosts on a list holding a counted candidate
\* of collection 0 and a counted candidate of another collection
C3_Witness ==
  /\ ProbsCalled /\ PositiveParams
  /\ \E i, j \in 1..Len(train_data) :
       /\ train_data[i].collection = 0 /\ FGt(ScoreOf(i), params.score_cutoff)
       /\ train_data[j].collection # 0 /\ FGt(ScoreOf(j), params.score_cutoff)
  /\ FGt(probs[0], F(0))

\* C4: a decision returned by get_top_choice names a key of the map, carries
\* that key's probability, and the probability is strictly above
\* probability_cutoff.
C4_DecisionAboveCutoff ==
  (TopCalled /\ top[1] = "Some") =>
    /\ top[2] \in DOMAIN probs
    /\ top[3] = probs[top[2]]
    /\ FGt(top[3], params.probability_cutoff)

\* get_top_choice returned a collection other than 0 while another entry of
\* the map sat at or below the cutoff
C4_Witness ==
  /\ TopCalled /\ top[1] = "Some" /\ top[2] # 0
  /\ \E k \in DOMAIN probs : ~FGt(probs[k], params.probability_cutoff)

\* no candidate scores strictly above score_cutoff
NoCandidateAbove ==
  \A i \in 1..Len(train_data) : ~FGt(ScoreOf(i), params.score_cutoff)

\* C6: when no candidate scores strictly above score_cutoff, get_probs
\* returns exactly {0: 1.0}, and get_top_choice returns (0, 1.0) if
\* probability_cutoff < 1.0 and no decision otherwise.
C6_OnlyReservedBucket ==
  (ProbsCalled /\ NoCandidateAbove) =>
    /\ probs = [k \in {0} |-> F(1)]
    /\ TopCalled =>
         top = IF FGt(F(1), params.probability_cutoff) THEN Some(0, F(1)) ELSE None

\* get_top_choice ran on a non-empty list none of whose candidates was
\* counted, and decided for collection 0
C6_Witness ==
  /\ TopCalled /\ NoCandidateAbove /\ Len(train_data) >= 1
  /\ top = Some(0, F(1))

\* some entry of the map is strictly above probability_cutoff
ExceedsCutoff == \E k \in DOMAIN probs : FGt(probs[k], params.probability_cutoff)

\* C9, checked under SpecPositive (no negative boost, every probability lies
\* in [0, 1]): get_top_choice returns no decision exactly when no entry of the map
\* strictly exceeds probability_cutoff, and evaluate_model counts a test record
\* as no_value only in that case.
C9_NoDecisionIffNoneExceeds ==
  /\ TopCalled => (top = None <=> ~ExceedsCutoff)
  /\ (op = "evaluate_loop" /\ idx >= 1 /\ IsNoValue(top_choice)) => ~ExceedsCutoff

----------------------------------------------------------------------------
(* Properties of evaluate_model, checked under Spec *)

\* C5: after each test record correct + incorrect + no_value is the number of
\* records processed, and the returned ScoreInfo has
\* score = correct - 10 * incorrect and
\* correct + incorrect + no_value = number of test records.
C5_ScoreInfoConsistent ==
  /\ op = "evaluate_loop" =>
       /\ correct + incorrect + no_value = idx
       /\ correct >= 0 /\ incorrect >= 0 /\ no_value >= 0
  /\ op = "evaluate_model" =>
       /\ info.score = info.correct - 10 * info.incorrect
       /\ info.correct + info.incorrect + info.no_value = Len(test_data)
       /\ info.correct = correct /\ info.incorrect = incorrect
       /\ info.no_value = no_value

\* evaluate_model returned after at least two test records, with a correct
\* and an incorrect decision among them
C5_Witness ==
  /\ op = "evaluate_model" /\ Len(test_data) >= 2
  /\ info.correct >= 1 /\ info.incorrect >= 1

----------------------------------------------------------------------------
(* The three-collection scenario, checked under SpecScenario *)

\* training record i is the only one scoring above score_cutoff, the others
\* score below it
Matching(i) ==
  /\ FGt(ScoreOf(i), params.score_cutoff)
  /\ \A j \in 1..Len(train_data) : j # i => FGt(params.score_cutoff, ScoreOf(j))

====
